---- MODULE Spec2Model ----
(***************************************************************************)
(* A model of run_eval_simlingo_local.py: the local, sequential launcher   *)
(* that builds a job queue from CONFIGS, asks needs_rerun whether a job's  *)
(* result file is complete, runs launch_job up to `tries` times per job    *)
(* (process_job) and collects the failed jobs (main).                      *)
(*                                                                         *)
(* Text that the program inspects character by character (benchmark names, *)
(* route file names, status strings) is a sequence of ASCII codes; text it *)
(* only compares or passes on (agent names, dictionary keys, directories)  *)
(* is a TLA+ string.                                                       *)
(***************************************************************************)
EXTENDS Integers, Sequences, FiniteSets, TLC

(***************************************************************************)
(* Parsed JSON values, as ujson.load returns them.  An object is a         *)
(* sequence of <<key, value>> pairs with distinct keys.                    *)
(***************************************************************************)
JNull == [t |-> "null", v |-> <<>>]
JNum(n) == [t |-> "num", v |-> n]
JStr(s) == [t |-> "str", v |-> s]
JList(xs) == [t |-> "list", v |-> xs]
JObj(kv) == [t |-> "obj", v |-> kv]

(***************************************************************************)
(* What a path of the result directory holds: nothing, bytes ujson cannot  *)
(* parse, or a JSON document.                                              *)
(***************************************************************************)
Missing == [t |-> "missing", v |-> JNull]
Garbage == [t |-> "garbage", v |-> JNull]
Json(j) == [t |-> "json", v |-> j]

\* "Failed - Agent couldn't be set up"
S_FailedSetup ==
  <<70, 97, 105, 108, 101, 100, 32, 45, 32, 65, 103, 101, 110, 116, 32, 99, 111,
    117, 108, 100, 110, 39, 116, 32, 98, 101, 32, 115, 101, 116, 32, 117, 112>>
\* "Failed"
S_Failed == <<70, 97, 105, 108, 101, 100>>
\* "Failed - Simulation crashed"
S_FailedSim ==
  <<70, 97, 105, 108, 101, 100, 32, 45, 32, 83, 105, 109, 117, 108, 97, 116, 105,
    111, 110, 32, 99, 114, 97, 115, 104, 101, 100>>
\* "Failed - Agent crashed"
S_FailedAgent ==
  <<70, 97, 105, 108, 101, 100, 32, 45, 32, 65, 103, 101, 110, 116, 32, 99, 114,
    97, 115, 104, 101, 100>>
\* "Completed"
S_Completed == <<67, 111, 109, 112, 108, 101, 116, 101, 100>>
\* "Perfect"
S_Perfect == <<80, 101, 114, 102, 101, 99, 116>>

\* faulty variant: a crashed simulation is not a failure
FAIL_STATUSES_NoSimCrash == {S_FailedSetup, S_Failed, S_FailedAgent}

FAIL_STATUSES == {S_FailedSetup, S_Failed, S_FailedSim, S_FailedAgent}

(***************************************************************************)
(* Python's operations on parsed values.  Each returns [exc, v]: exc is    *)
(* "none" or the name of the exception the operation raises.               *)
(***************************************************************************)
Ok(x) == [exc |-> "none", v |-> x]
Raise(e) == [exc |-> e, v |-> JNull]

HasKey(kv, key) == \E i \in 1..Len(kv) : kv[i][1] = key
ValueOf(kv, key) == kv[CHOOSE i \in 1..Len(kv) : kv[i][1] = key][2]

\* x[key] with a str key: only a dict accepts it.
Subscript(x, key) ==
  IF x.t = "obj"
  THEN IF HasKey(x.v, key) THEN Ok(ValueOf(x.v, key)) ELSE Raise("KeyError")
  ELSE Raise("TypeError")

\* x[i] with an int index i >= 0 (1-based position i + 1 here).
Index(x, i) ==
  CASE x.t = "list" -> IF i < Len(x.v) THEN Ok(x.v[i + 1]) ELSE Raise("IndexError")
    [] x.t = "str" -> IF i < Len(x.v) THEN Ok(JStr(<<x.v[i + 1]>>)) ELSE Raise("IndexError")
    [] x.t = "obj" -> Raise("KeyError")
    [] OTHER -> Raise("TypeError")

\* len(x)
PyLen(x) ==
  IF x.t \in {"list", "str", "obj"} THEN Ok(Len(x.v)) ELSE Raise("TypeError")

\* s < t for two sequences of integers, lexicographically
RECURSIVE SeqLess(_, _)
SeqLess(s, t) ==
  IF s = <<>> THEN t # <<>>
  ELSE IF t = <<>> THEN FALSE
  ELSE IF Head(s) # Head(t) THEN Head(s) < Head(t)
  ELSE SeqLess(Tail(s), Tail(t))

\* a < b
RECURSIVE PyLess(_, _)
PyLess(a, b) ==
  CASE a.t = "num" /\ b.t = "num" -> Ok(a.v < b.v)
    [] a.t = "str" /\ b.t = "str" -> Ok(SeqLess(a.v, b.v))
    [] a.t = "list" /\ b.t = "list" ->
         IF a.v = <<>> THEN Ok(b.v # <<>>)
         ELSE IF b.v = <<>> THEN Ok(FALSE)
         ELSE IF Head(a.v) # Head(b.v) THEN PyLess(Head(a.v), Head(b.v))
         ELSE PyLess(JList(Tail(a.v)), JList(Tail(b.v)))
    [] OTHER -> Raise("TypeError")

\* record.get("status") in FAIL_STATUSES, for one record
RecordFailed(record) ==
  IF record.t # "obj" THEN Raise("AttributeError")
  ELSE IF ~HasKey(record.v, "status") THEN Ok(FALSE)
  ELSE LET status == ValueOf(record.v, "status") IN
       CASE status.t = "str" -> Ok(status.v \in FAIL_STATUSES)
         [] status.t \in {"list", "obj"} -> Raise("TypeError")
         [] OTHER -> Ok(FALSE)

\* The items a for loop over x visits: the elements of a list, the characters
\* of a str, the keys of a dict (each a str; what matters of a key here is
\* only that it is no dict).
Iterate(x) ==
  CASE x.t = "list" -> Ok(x.v)
    [] x.t = "str" -> Ok([i \in 1..Len(x.v) |-> JStr(<<x.v[i]>>)])
    [] x.t = "obj" -> Ok([i \in 1..Len(x.v) |-> JStr(<<>>)])
    [] OTHER -> Raise("TypeError")

\* The loop of lines 147-150 from item i on: "True" when a failed record is
\* met, "False" when none is, the exception's name when one is raised.
RECURSIVE ScanRecords(_, _)
ScanRecords(items, i) ==
  IF i > Len(items) THEN "False"
  ELSE LET r == RecordFailed(items[i]) IN
       IF r.exc # "none" THEN r.exc
       ELSE IF r.v THEN "True"
       ELSE ScanRecords(items, i + 1)

(***************************************************************************)
(* needs_rerun applied to what the job's result file holds.  The result is *)
(* "True" (needs rerun), "False" (complete) or the name of the exception   *)
(* that leaves the function.                                               *)
(***************************************************************************)
RerunOfProgress(checkpoint, progress) ==
  LET n == PyLen(progress) IN
  IF n.exc # "none" THEN n.exc
  ELSE IF n.v < 2 THEN "True"
  ELSE LET a == Index(progress, 0)
           b == Index(progress, 1)
       IN IF a.exc # "none" THEN a.exc
          ELSE IF b.exc # "none" THEN b.exc
          ELSE LET lt == PyLess(a.v, b.v) IN
               IF lt.exc # "none" THEN lt.exc
               ELSE IF lt.v THEN "True"
               ELSE LET records == IF HasKey(checkpoint.v, "records")
                                   THEN ValueOf(checkpoint.v, "records")
                                   ELSE JList(<<>>)
                        items == Iterate(records)
                    IN IF items.exc # "none" THEN items.exc
                       ELSE ScanRecords(items.v, 1)

needs_rerun(content) ==
  IF content.t = "missing" THEN "True"
  ELSE IF content.t = "garbage" THEN "True"
  ELSE LET evaluation_data == content.v
           checkpoint == Subscript(evaluation_data, "_checkpoint")
       IN IF checkpoint.exc = "KeyError" THEN "True"
          ELSE IF checkpoint.exc # "none" THEN checkpoint.exc
          ELSE LET progress == Subscript(checkpoint.v, "progress") IN
               IF progress.exc = "KeyError" THEN "True"
               ELSE IF progress.exc # "none" THEN progress.exc
               ELSE RerunOfProgress(checkpoint.v, progress.v)

(***************************************************************************)
(* Text operations of build_job_queue and discover_routes, on sequences of *)
(* ASCII codes.                                                            *)
(***************************************************************************)
\* "bench2drive"
S_bench2drive == <<98, 101, 110, 99, 104, 50, 100, 114, 105, 118, 101>>
\* "Bench2Drive"
S_Bench2Drive == <<66, 101, 110, 99, 104, 50, 68, 114, 105, 118, 101>>
\* "longest6"
S_longest6 == <<108, 111, 110, 103, 101, 115, 116, 54>>
\* ".xml"
S_xml == <<46, 120, 109, 108>>
\* "_res.json"
S_res_json == <<95, 114, 101, 115, 46, 106, 115, 111, 110>>
\* "_out.log"
S_out_log == <<95, 111, 117, 116, 46, 108, 111, 103>>
\* "_err.log"
S_err_log == <<95, 101, 114, 114, 46, 108, 111, 103>>
\* "route_1.xml", "route_2.xml", "route_7.xml", "route_10.xml"
F_route_1 == <<114, 111, 117, 116, 101, 95, 49, 46, 120, 109, 108>>
F_route_2 == <<114, 111, 117, 116, 101, 95, 50, 46, 120, 109, 108>>
F_route_7 == <<114, 111, 117, 116, 101, 95, 55, 46, 120, 109, 108>>
F_route_10 == <<114, 111, 117, 116, 101, 95, 49, 48, 46, 120, 109, 108>>
\* "a_7.xml", "b_7.xml", "town_1234.xml", "notes.txt"
F_a_7 == <<97, 95, 55, 46, 120, 109, 108>>
F_b_7 == <<98, 95, 55, 46, 120, 109, 108>>
F_town_1234 == <<116, 111, 119, 110, 95, 49, 50, 51, 52, 46, 120, 109, 108>>
F_notes_txt == <<110, 111, 116, 101, 115, 46, 116, 120, 116>>
\* ".xml", "r.XML", "r.xml.bak"
F_dot_xml == <<46, 120, 109, 108>>
F_r_XML == <<114, 46, 88, 77, 76>>
F_r_xml_bak == <<114, 46, 120, 109, 108, 46, 98, 97, 107>>

\* str.lower()
Lower(s) == [k \in 1..Len(s) |-> IF s[k] \in 65..90 THEN s[k] + 32 ELSE s[k]]

\* The position of the last occurrence of code c in s, 0 when there is none
\* (str.rfind, 1-based).
RFind(s, c) ==
  IF \E k \in 1..Len(s) : s[k] = c
  THEN CHOOSE k \in 1..Len(s) : s[k] = c /\ \A m \in (k + 1)..Len(s) : s[m] # c
  ELSE 0

\* PurePath.suffix and PurePath.stem of a file name
Suffix(name) ==
  LET d == RFind(name, 46) IN
  IF 1 < d /\ d < Len(name) THEN SubSeq(name, d, Len(name)) ELSE <<>>
Stem(name) ==
  LET d == RFind(name, 46) IN
  IF 1 < d /\ d < Len(name) THEN SubSeq(name, 1, d - 1) ELSE name

\* s.split("_")[-1]
LastToken(s) == SubSeq(s, RFind(s, 95) + 1, Len(s))

\* str.zfill(width): zeros go after a leading sign
Zeros(n) == [k \in 1..n |-> 48]
zfill(s, width) ==
  IF Len(s) >= width THEN s
  ELSE IF s # <<>> /\ s[1] \in {43, 45}
       THEN <<s[1]>> \o Zeros(width - Len(s)) \o Tail(s)
       ELSE Zeros(width - Len(s)) \o s

\* str(n) for an integer n
RECURSIVE Digits(_)
Digits(n) == IF n < 10 THEN <<48 + n>> ELSE Digits(n \div 10) \o <<48 + (n % 10)>>
str(n) == IF n < 0 THEN <<45>> \o Digits(-n) ELSE Digits(n)

(***************************************************************************)
(* A path is an anchor ("/" absolute, "~" under the home directory, "."    *)
(* relative to the working directory) and its components.                  *)
(***************************************************************************)
HomeDir == <<"home", "user">>
Cwd == <<"home", "user", "simlingo">>
P(anchor, parts) == [anchor |-> anchor, parts |-> parts]

expand_path(path) ==
  CASE path.anchor = "~" -> P("/", HomeDir \o path.parts)
    [] path.anchor = "." -> P("/", Cwd \o path.parts)
    [] OTHER -> path

(***************************************************************************)
(* preprocess_config.  A raw configuration is a record; has_tries and      *)
(* has_seeds say whether the "tries" and "seeds" keys are present.  The    *)
(* ports and the timeout only reach the evaluator's command line and are   *)
(* left out.  `existing` is the set of absolute paths that exist.          *)
(***************************************************************************)
DefaultTries == 1

REQUIRED_PATHS == <<"route_path", "carla_root", "repo_root", "agent_file", "checkpoint">>

ExpandPaths(cfg) ==
  [cfg EXCEPT !.checkpoint = expand_path(@), !.route_path = expand_path(@),
              !.out_root = expand_path(@), !.carla_root = expand_path(@),
              !.repo_root = expand_path(@), !.agent_file = expand_path(@)]

SetDefaults(cfg) ==
  IF cfg.has_tries THEN cfg ELSE [cfg EXCEPT !.tries = DefaultTries, !.has_tries = TRUE]

PathField(cfg, name) ==
  CASE name = "route_path" -> cfg.route_path
    [] name = "carla_root" -> cfg.carla_root
    [] name = "repo_root" -> cfg.repo_root
    [] name = "agent_file" -> cfg.agent_file
    [] OTHER -> cfg.checkpoint

\* faulty variant: the error always names the first required field
FirstMissing_NamesFirstField(cfg, existing) ==
  IF \A k \in 1..Len(REQUIRED_PATHS) : PathField(cfg, REQUIRED_PATHS[k]) \in existing
  THEN ""
  ELSE REQUIRED_PATHS[1]

\* The first required field, in the order of lines 61-67, whose path is not
\* there; "" when all are.
FirstMissing(cfg, existing) ==
  IF \A k \in 1..Len(REQUIRED_PATHS) : PathField(cfg, REQUIRED_PATHS[k]) \in existing
  THEN ""
  ELSE REQUIRED_PATHS[CHOOSE k \in 1..Len(REQUIRED_PATHS) :
          /\ PathField(cfg, REQUIRED_PATHS[k]) \notin existing
          /\ \A m \in 1..(k - 1) : PathField(cfg, REQUIRED_PATHS[m]) \in existing]

\* The path of no error message
NoPath == P("/", <<>>)

\* [exc, name, path, cfg]: exc is "none" or "FileNotFoundError", and then name
\* and path are the field and the path the message of line 70 names.
preprocess_config(raw_cfg, existing) ==
  LET cfg == SetDefaults(ExpandPaths(raw_cfg))
      absent == FirstMissing(cfg, existing)
  IN [exc |-> IF absent = "" THEN "none" ELSE "FileNotFoundError",
      name |-> absent,
      path |-> IF absent = "" THEN NoPath ELSE PathField(cfg, absent),
      cfg |-> cfg]

(***************************************************************************)
(* discover_routes: the entries of the directory, in the order iterdir     *)
(* yields them, filtered to the suffix ".xml" and sorted.  All entries     *)
(* share the directory, so paths compare as their names do.                *)
(***************************************************************************)
RECURSIVE Insert(_, _)
Insert(sorted, x) ==
  IF sorted = <<>> THEN <<x>>
  ELSE IF SeqLess(x, Head(sorted)) THEN <<x>> \o sorted
  ELSE <<Head(sorted)>> \o Insert(Tail(sorted), x)

\* faulty variant: the routes are returned in the order of the listing
Sorted_AsListed(names) == names

RECURSIVE Sorted(_)
Sorted(names) ==
  IF names = <<>> THEN <<>>
  ELSE Insert(Sorted(SubSeq(names, 1, Len(names) - 1)), names[Len(names)])

\* The orders in which iterdir can yield the entries q lists.
Reorderings(q) ==
  {r \in [1..Len(q) -> {q[k] : k \in 1..Len(q)}] :
     \A a \in 1..Len(q) : \E b \in 1..Len(q) : r[b] = q[a]}

discover_routes(entries) ==
  Sorted(SelectSeq(entries, LAMBDA name : Suffix(name) = S_xml))

(***************************************************************************)
(* build_job_queue                                                         *)
(***************************************************************************)
\* int(seed): a seed is an int or a string of decimal digits
RECURSIVE ParseDigits(_)
ParseDigits(s) ==
  IF s = <<>> THEN 0 ELSE 10 * ParseDigits(SubSeq(s, 1, Len(s) - 1)) + (s[Len(s)] - 48)
int(seed) == IF seed.t = "str" THEN ParseDigits(seed.v) ELSE seed.v

SeedInt(n) == [t |-> "int", v |-> n]
SeedStr(s) == [t |-> "str", v |-> s]
DefaultSeeds == <<SeedInt(1)>>

\* faulty variant: the benchmark name is compared as it is written
fill_zeros_CaseSensitive(cfg) == IF cfg.benchmark = S_bench2drive THEN 3 ELSE 2

\* lines 88-91
fill_zeros(cfg) == IF Lower(cfg.benchmark) = S_bench2drive THEN 3 ELSE 2

BaseDir(cfg, seed_str) ==
  [out_root |-> cfg.out_root, agent |-> cfg.agent, benchmark |-> cfg.benchmark,
   seed |-> seed_str]

OutPath(base_dir, sub, name) == [base |-> base_dir, sub |-> sub, name |-> name]

route_id_of(cfg, route) == zfill(LastToken(Stem(route)), fill_zeros(cfg))

Job(cfg, seed, route) ==
  LET seed_int == int(seed)
      base_dir == BaseDir(cfg, str(seed_int))
      route_id == route_id_of(cfg, route)
  IN [cfg |-> cfg,
      route |-> [dir |-> cfg.route_path, name |-> route],
      route_id |-> route_id,
      seed |-> seed_int,
      viz_path |-> OutPath(base_dir, "viz", route_id),
      result_file |-> OutPath(base_dir, "res", route_id \o S_res_json),
      log_file |-> OutPath(base_dir, "out", route_id \o S_out_log),
      err_file |-> OutPath(base_dir, "err", route_id \o S_err_log),
      remaining_tries |-> cfg.tries]

\* faulty variant: the route loop is the outer loop
RECURSIVE JobsOfSeeds_RouteMajor(_, _, _)
JobsOfSeeds_RouteMajor(cfg, seeds, routes) ==
  IF routes = <<>> THEN <<>>
  ELSE [k \in 1..Len(seeds) |-> Job(cfg, seeds[k], Head(routes))]
       \o JobsOfSeeds_RouteMajor(cfg, seeds, Tail(routes))

\* The jobs of one configuration: seed by seed, route by route.
RECURSIVE JobsOfSeeds(_, _, _)
JobsOfSeeds(cfg, seeds, routes) ==
  IF seeds = <<>> THEN <<>>
  ELSE [k \in 1..Len(routes) |-> Job(cfg, Head(seeds), routes[k])]
       \o JobsOfSeeds(cfg, Tail(seeds), routes)

JobsOfConfig(cfg, dirs) ==
  JobsOfSeeds(cfg, IF cfg.has_seeds THEN cfg.seeds ELSE DefaultSeeds,
              discover_routes(dirs[cfg.route_path]))

\* The mkdir calls of lines 99-100 and 107 for one configuration, in the
\* order they are made; a directory is an output path with an empty name.
RECURSIVE MadeDirs(_, _, _)
MadeDirs(cfg, seeds, routes) ==
  IF seeds = <<>> THEN <<>>
  ELSE LET base_dir == BaseDir(cfg, str(int(Head(seeds)))) IN
       [k \in 1..4 |-> OutPath(base_dir, <<"run", "res", "out", "err">>[k], <<>>)]
       \o [k \in 1..Len(routes) |-> OutPath(base_dir, "viz", <<>>)]
       \o MadeDirs(cfg, Tail(seeds), routes)

MadeOfConfig(cfg, dirs) ==
  MadeDirs(cfg, IF cfg.has_seeds THEN cfg.seeds ELSE DefaultSeeds,
           discover_routes(dirs[cfg.route_path]))

\* [exc, name, path, queue, made]: the queue, or the FileNotFoundError of the
\* first configuration whose preprocess_config raises; and the mkdir calls
\* made on the way, in order.
RECURSIVE build_job_queue(_, _, _)
build_job_queue(configs, existing, dirs) ==
  IF configs = <<>>
  THEN [exc |-> "none", name |-> "", path |-> NoPath, queue |-> <<>>, made |-> <<>>]
  ELSE LET pre == preprocess_config(Head(configs), existing) IN
       IF pre.exc # "none"
       THEN [exc |-> pre.exc, name |-> pre.name, path |-> pre.path, queue |-> <<>>,
             made |-> <<>>]
       ELSE LET rest == build_job_queue(Tail(configs), existing, dirs) IN
            IF rest.exc # "none"
            THEN [rest EXCEPT !.made = MadeOfConfig(pre.cfg, dirs) \o @]
            ELSE [rest EXCEPT !.queue = JobsOfConfig(pre.cfg, dirs) \o @,
                              !.made = MadeOfConfig(pre.cfg, dirs) \o @]

(***************************************************************************)
(* The output tree: the directories and files under the output roots, as   *)
(* pairs of a path and "dir" or "file".  Parent directories are left out.  *)
(***************************************************************************)
Dir(d) == <<d, "dir">>
File(f) == <<f, "file">>

\* faulty variant: mkdir(parents=True) without exist_ok
mkdir_NotExistOk(t, d) ==
  IF File(d) \in t \/ Dir(d) \in t
  THEN [exc |-> "FileExistsError", tree |-> t]
  ELSE [exc |-> "none", tree |-> t \cup {Dir(d)}]

\* Path.mkdir(parents=True, exist_ok=True): an existing directory is left as
\* it is, anything else in its place raises.
mkdir(t, d) ==
  IF File(d) \in t
  THEN [exc |-> "FileExistsError", tree |-> t]
  ELSE [exc |-> "none", tree |-> t \cup {Dir(d)}]

\* The mkdir calls of a build_job_queue call, up to the first that raises.
RECURSIVE Mkdirs(_, _)
Mkdirs(t, ds) ==
  IF ds = <<>> THEN [exc |-> "none", tree |-> t]
  ELSE LET m == mkdir(t, Head(ds)) IN
       IF m.exc # "none" THEN m ELSE Mkdirs(m.tree, Tail(ds))

(***************************************************************************)
(* The configurations, directories and result files the program is run     *)
(* against.                                                                *)
(***************************************************************************)
MaxTries == 3

RouteDir == P(".", <<"routes">>)
OtherRouteDir == P(".", <<"routes_b">>)

BaseCfg ==
  [agent |-> "simlingo", benchmark |-> S_bench2drive,
   route_path |-> RouteDir, out_root |-> P(".", <<"eval_results">>),
   carla_root |-> P("~", <<"carla">>), repo_root |-> P("/", <<"repo">>),
   agent_file |-> P(".", <<"agent.py">>), checkpoint |-> P(".", <<"model.pt">>),
   seeds |-> <<SeedInt(1)>>, has_seeds |-> TRUE, tries |-> 1, has_tries |-> TRUE]

AllPaths ==
  {expand_path(q) : q \in {RouteDir, OtherRouteDir, BaseCfg.carla_root,
                           BaseCfg.repo_root, BaseCfg.agent_file, BaseCfg.checkpoint}}

Dirs(a, b) == (expand_path(RouteDir) :> a) @@ (expand_path(OtherRouteDir) :> b)

World(configs, existing, dirs) ==
  [configs |-> configs, existing |-> existing, dirs |-> dirs]

Worlds ==
  \* one configuration, two routes and a file that is no route
  { World(<<[BaseCfg EXCEPT !.tries = n]>>, AllPaths,
          Dirs(<<F_route_2, F_notes_txt, F_route_1>>, <<>>)) : n \in 0..MaxTries }
  \* two route files with the same last token
  \cup { World(<<[BaseCfg EXCEPT !.tries = n, !.benchmark = S_longest6]>>, AllPaths,
               Dirs(<<F_b_7, F_a_7>>, <<>>)) : n \in 1..MaxTries }
  \* two configurations, the second without "tries" and "seeds"
  \cup { World(<<[BaseCfg EXCEPT !.tries = n, !.benchmark = S_Bench2Drive],
                 [BaseCfg EXCEPT !.has_tries = FALSE, !.has_seeds = FALSE,
                                 !.route_path = OtherRouteDir,
                                 !.benchmark = S_longest6]>>, AllPaths,
               Dirs(<<F_route_7>>, <<F_town_1234>>)) : n \in 0..MaxTries }
  \* two seeds, one of them a string
  \cup { World(<<[BaseCfg EXCEPT !.seeds = <<SeedInt(2), SeedStr(<<48, 49>>)>>,
                                 !.benchmark = S_longest6]>>,
               AllPaths, Dirs(<<F_route_7>>, <<>>)) }
  \* two seeds, not in ascending order, and two routes
  \cup { World(<<[BaseCfg EXCEPT !.seeds = <<SeedInt(2), SeedInt(1)>>]>>,
               AllPaths, Dirs(<<F_route_2, F_route_10>>, <<>>)) }
  \* three routes
  \cup { World(<<BaseCfg>>, AllPaths,
               Dirs(<<F_route_10, F_route_2, F_route_1>>, <<>>)) }
  \* a required path that does not exist
  \cup { World(<<BaseCfg>>, AllPaths \ {q}, Dirs(<<F_route_1>>, <<>>)) :
           q \in AllPaths \ {expand_path(OtherRouteDir)} }
  \* two required paths that do not exist
  \cup { World(<<BaseCfg>>,
               AllPaths \ {expand_path(BaseCfg.repo_root), expand_path(BaseCfg.checkpoint)},
               Dirs(<<F_route_1>>, <<>>)) }
  \* two configurations, the checkpoint of the second does not exist
  \cup { World(<<BaseCfg, [BaseCfg EXCEPT !.checkpoint = P(".", <<"absent.pt">>),
                                          !.route_path = OtherRouteDir]>>,
               AllPaths, Dirs(<<F_route_1>>, <<F_route_2>>)) }
  \* nothing to run
  \cup { World(<<BaseCfg>>, AllPaths, Dirs(<<F_notes_txt>>, <<>>)),
         World(<<>>, AllPaths, Dirs(<<>>, <<>>)) }

\* The result files of the jobs of a world.
ResultFiles(w) ==
  LET b == build_job_queue(w.configs, w.existing, w.dirs) IN
  {b.queue[k].result_file : k \in 1..Len(b.queue)}

Checkpoint(progress, records) ==
  Json(JObj(<< <<"_checkpoint",
                 JObj(<< <<"progress", progress>>, <<"records", records>> >>)>> >>))
Record(status) == JObj(<< <<"status", JStr(status)>> >>)

C_complete == Checkpoint(JList(<<JNum(1), JNum(1)>>), JList(<<Record(S_Completed)>>))
C_failed == Checkpoint(JList(<<JNum(1), JNum(1)>>), JList(<<Record(S_FailedAgent)>>))
C_partial == Checkpoint(JList(<<JNum(0), JNum(1)>>), JList(<<>>))
C_list == Json(JList(<<>>))
\* "progress" is the text "ba"
C_text == Checkpoint(JStr(<<98, 97>>), JList(<<>>))

\* What a result file holds before the run, and what the evaluator leaves
\* in it.
InitialContents == {Missing, C_complete, C_partial, C_list}
WrittenContents == {C_complete, C_failed, C_partial, Garbage, C_list, C_text}

(***************************************************************************)
(* The documents needs_rerun is applied to on its own: every shape of the  *)
(* top level, of "_checkpoint", of "progress" and of "records", with       *)
(* progress counts up to MaxCount and up to MaxRecords records.            *)
(***************************************************************************)
MaxCount == 2
MaxRecords == 2

RecordValues ==
  {Record(st) : st \in {S_Failed, S_FailedSetup, S_FailedSim, S_FailedAgent,
                        S_Completed, S_Perfect}}
  \cup {JObj(<<>>), JNum(5), JObj(<< <<"status", JNull>> >>),
        JObj(<< <<"status", JList(<<>>)>> >>)}

RECURSIVE SeqsUpTo(_, _)
SeqsUpTo(S, n) ==
  IF n = 0 THEN {<<>>}
  ELSE LET shorter == SeqsUpTo(S, n - 1) IN
       shorter \cup {Append(q, x) : q \in shorter, x \in S}

RecordsValues ==
  {JList(q) : q \in SeqsUpTo(RecordValues, MaxRecords)}
  \cup {JNull, JStr(<<>>), JStr(S_Failed), JObj(<<>>)}

ProgressValues ==
  {JList(q) : q \in SeqsUpTo({JNum(n) : n \in 0..MaxCount}, 2)}
  \cup {JList(<<JNum(1), JNum(1), JNum(0)>>), JList(<<JNull, JNull>>),
        JList(<<JNum(1), JStr(<<49>>)>>), JList(<<JStr(<<97>>), JStr(<<98>>)>>),
        JList(<<JList(<<JNum(2)>>), JList(<<JNum(1)>>)>>),
        JNull, JNum(1), JStr(<<97, 98>>), JStr(<<98, 97>>), JObj(<<>>),
        JObj(<< <<"a", JNum(1)>>, <<"b", JNum(1)>> >>)}

CheckpointValues ==
  {JObj(<< <<"progress", pr>>, <<"records", rs>> >>) :
     pr \in ProgressValues, rs \in RecordsValues}
  \cup {JObj(<< <<"progress", pr>> >>) : pr \in ProgressValues}
  \cup {JObj(<< <<"records", rs>> >>) : rs \in RecordsValues}
  \cup {JObj(<<>>), JNull, JNum(1), JStr(S_Completed), JList(<<>>)}

AllContents ==
  {Json(JObj(<< <<"_checkpoint", c>> >>)) : c \in CheckpointValues}
  \cup {Json(JObj(<< <<"records", JList(<<>>)>> >>)), Json(JObj(<<>>)), Json(JNull),
        Json(JNum(1)), Json(JStr(S_Completed)), Json(JList(<<>>)), Garbage, Missing}

\* The world needs_rerun is probed in: one job.
ProbeWorld == World(<<BaseCfg>>, AllPaths, Dirs(<<F_route_1>>, <<>>))

VARIABLES
  CONFIGS,        \* the configuration list
  existing,       \* the absolute paths that exist
  dirs,           \* route directory -> its entries, in iterdir order
  fs,             \* result file -> what it holds
  tree,           \* the output directories and log files that have been created
  job_queue,      \* main's job_queue
  pc,             \* where main or the process_job it called stands
  i,              \* the position in job_queue of the for loop's job
  total_tries,    \* process_job's total_tries
  failures,       \* main's failures
  progress,       \* the count tqdm shows
  exc,            \* the exception that left main, "none" while there is none
  message,        \* what main printed last at its end
  missing,        \* the field and the path the FileNotFoundError names
  routes,         \* what discover_routes returned when called on its own
  again,          \* what a second build_job_queue call raised or returned
  trace,          \* history: the oracle verdicts and exit codes of this process_job call
  outcome,        \* history: job -> "PENDING", "SUCCEEDED" or "EXHAUSTED"
  invocations,    \* history: job -> number of launch_job calls
  entry           \* history: job -> needs_rerun of its file when process_job began

vars == <<CONFIGS, existing, dirs, fs, tree, job_queue, pc, i, total_tries, failures,
          progress, exc, message, missing, routes, again, trace, outcome,
          invocations, entry>>

env == <<CONFIGS, existing, dirs>>

Init ==
  /\ \E w \in Worlds :
       /\ CONFIGS = w.configs
       /\ existing = w.existing
       /\ dirs = w.dirs
       /\ fs \in [ResultFiles(w) -> InitialContents]
  /\ tree = {}
  /\ job_queue = <<>>
  /\ pc = "main"
  /\ i = 0
  /\ total_tries = 0
  /\ failures = <<>>
  /\ progress = 0
  /\ exc = "none"
  /\ message = ""
  /\ missing = [name |-> "", path |-> NoPath]
  /\ routes = <<>>
  /\ again = [exc |-> "none", queue |-> <<>>]
  /\ trace = <<>>
  /\ outcome = <<>>
  /\ invocations = <<>>
  /\ entry = <<>>

job == job_queue[i]

\* main, lines 273-279
Main_Build ==
  /\ pc = "main"
  /\ LET b == build_job_queue(CONFIGS, existing, dirs)
         m == Mkdirs(tree, b.made)
     IN
     /\ tree' = m.tree
     /\ IF m.exc # "none"
        THEN /\ exc' = m.exc
             /\ pc' = "raised"
             /\ UNCHANGED <<job_queue, i, message, missing, outcome, invocations, entry>>
        ELSE IF b.exc # "none"
        THEN /\ exc' = b.exc
             /\ missing' = [name |-> b.name, path |-> b.path]
             /\ pc' = "raised"
             /\ UNCHANGED <<job_queue, i, message, outcome, invocations, entry>>
        ELSE /\ job_queue' = b.queue
             /\ outcome' = [k \in 1..Len(b.queue) |-> "PENDING"]
             /\ invocations' = [k \in 1..Len(b.queue) |-> 0]
             /\ entry' = [k \in 1..Len(b.queue) |-> "none"]
             /\ IF b.queue = <<>>
                THEN pc' = "done" /\ message' = "No jobs discovered" /\ UNCHANGED i
                ELSE pc' = "for" /\ i' = 1 /\ UNCHANGED message
             /\ UNCHANGED <<exc, missing>>
  /\ UNCHANGED <<env, routes, again, fs, total_tries, failures, progress,
                 trace>>

\* main, line 280 and the call of line 282; process_job, line 241
Main_NextJob ==
  /\ pc = "for"
  /\ i <= Len(job_queue)
  /\ total_tries' = job.remaining_tries
  /\ trace' = <<>>
  /\ entry' = [entry EXCEPT ![i] = needs_rerun(fs[job.result_file])]
  /\ pc' = "while"
  /\ UNCHANGED <<env, routes, again, missing, fs, tree, job_queue, i,
                 failures, progress, exc, message, outcome, invocations>>

\* Where process_job stands next, and what has become of the job.
Goto(next) ==
  /\ pc' = next
  /\ outcome' = CASE next = "returned_True" -> [outcome EXCEPT ![i] = "SUCCEEDED"]
                  [] next = "returned_False" -> [outcome EXCEPT ![i] = "EXHAUSTED"]
                  [] OTHER -> outcome

\* An exception leaves process_job and main: the finally clause of line 286
\* runs on the way.
Propagate(e) ==
  /\ exc' = e
  /\ progress' = progress + 1
  /\ pc' = "raised"
  /\ UNCHANGED outcome

\* faulty variant: the loop stops one try early
AfterWhileTest_StopsEarly(j) ==
  IF j.remaining_tries > 1 THEN "check_skip" ELSE "returned_False"

\* line 242: the loop goes on, or ends in the return False of lines 266-269
AfterWhileTest(j) == IF j.remaining_tries > 0 THEN "check_skip" ELSE "returned_False"

\* faulty variant: the job is launched whatever needs_rerun returned
AfterSkipCheck_NoSkip(r) == "launch"

\* lines 243-247, given what needs_rerun returned
AfterSkipCheck(r) == IF r = "True" THEN "launch" ELSE "returned_True"

\* faulty variant: a complete result after a zero exit is retried all the same
AfterDoneCheck_Retries(r) == "while"

\* lines 254-264: `success and not needs_rerun(job)`, success being True
AfterDoneCheck(r) == IF r = "True" THEN "while" ELSE "returned_True"

\* faulty variant: a zero exit code is taken for success
AfterLaunch_TrustsExit(success) == IF success THEN "returned_True" ELSE "while"

\* line 254: needs_rerun is only asked when launch_job returned True
AfterLaunch(success) == IF success THEN "check_done" ELSE "while"

\* faulty variant: two tries are charged for one attempt
Decrement_ByTwo(queue, k) == [queue EXCEPT ![k].remaining_tries = @ - 2]

\* faulty variant: the counter is shared by all jobs
Decrement_AllJobs(queue, k) ==
  [m \in 1..Len(queue) |-> [queue[m] EXCEPT !.remaining_tries = @ - 1]]

\* line 252
Decrement(queue, k) == [queue EXCEPT ![k].remaining_tries = @ - 1]

\* faulty variant: the jobs that succeeded are recorded
RecordFailure_Inverted(list, succeeded, j) ==
  IF succeeded THEN Append(list, <<j.route_id, j.seed>>) ELSE list

\* lines 283-284
RecordFailure(list, succeeded, j) ==
  IF ~succeeded THEN Append(list, <<j.route_id, j.seed>>) ELSE list

\* lines 289-294
Summary(list) ==
  IF list # <<>> THEN "The following jobs failed:"
  ELSE "All jobs completed successfully."

\* process_job, line 242, and lines 266-269 when the loop ends
PJ_While ==
  /\ pc = "while"
  /\ Goto(AfterWhileTest(job))
  /\ UNCHANGED <<env, routes, again, missing, fs, tree, job_queue, i,
                 total_tries, failures, progress, exc, message, trace,
                 invocations, entry>>

\* process_job, lines 243-247
PJ_CheckSkip ==
  /\ pc = "check_skip"
  /\ LET r == needs_rerun(fs[job.result_file]) IN
     /\ trace' = Append(trace, <<"needs_rerun", r>>)
     /\ IF r \in {"True", "False"}
        THEN Goto(AfterSkipCheck(r)) /\ UNCHANGED <<exc, progress>>
        ELSE Propagate(r)
  /\ UNCHANGED <<env, routes, again, missing, fs, tree, job_queue, i,
                 total_tries, failures, message, invocations, entry>>

\* launch_job: the evaluator leaves the result file as it was or writes it,
\* and exits with zero or not.
launch_job(j, ok, content) ==
  /\ fs' = [fs EXCEPT ![j.result_file] = content]
  /\ tree' = tree \cup {Dir(j.viz_path), File(j.log_file), File(j.err_file)}
  /\ trace' = Append(trace, <<"launch_job", IF ok THEN "True" ELSE "False">>)
  /\ invocations' = [invocations EXCEPT ![i] = @ + 1]

\* process_job, lines 249-252, and lines 260-264 when success is False
PJ_Launch ==
  /\ pc = "launch"
  /\ \E success \in BOOLEAN, content \in WrittenContents \cup {fs[job.result_file]} :
       /\ launch_job(job, success, content)
       /\ job_queue' = Decrement(job_queue, i)
       /\ Goto(AfterLaunch(success))
  /\ UNCHANGED <<env, routes, again, missing, i, total_tries, failures,
                 progress, exc, message, entry>>

\* process_job, lines 254-264, after launch_job returned True
PJ_CheckDone ==
  /\ pc = "check_done"
  /\ LET r == needs_rerun(fs[job.result_file]) IN
     /\ trace' = Append(trace, <<"needs_rerun", r>>)
     /\ IF r \in {"True", "False"}
        THEN Goto(AfterDoneCheck(r)) /\ UNCHANGED <<exc, progress>>
        ELSE Propagate(r)
  /\ UNCHANGED <<env, routes, again, missing, fs, tree, job_queue, i,
                 total_tries, failures, message, invocations, entry>>

\* main, lines 282-286, when process_job has returned
Main_AfterJob ==
  /\ pc \in {"returned_True", "returned_False"}
  /\ failures' = RecordFailure(failures, pc = "returned_True", job)
  /\ progress' = progress + 1
  /\ i' = i + 1
  /\ pc' = "for"
  /\ UNCHANGED <<env, routes, again, missing, fs, tree, job_queue,
                 total_tries, exc, message, trace, outcome, invocations,
                 entry>>

\* main, lines 288-294
Main_Summary ==
  /\ pc = "for"
  /\ i > Len(job_queue)
  /\ message' = Summary(failures)
  /\ pc' = "done"
  /\ UNCHANGED <<env, routes, again, missing, fs, tree, job_queue, i,
                 total_tries, failures, progress, exc, trace, outcome,
                 invocations, entry>>

Next ==
  \/ Main_Build
  \/ Main_NextJob
  \/ PJ_While
  \/ PJ_CheckSkip
  \/ PJ_Launch
  \/ PJ_CheckDone
  \/ Main_AfterJob
  \/ Main_Summary

(***************************************************************************)
(* needs_rerun on its own: the queue holds one job, whose result file      *)
(* holds any of AllContents, and the function is called once.              *)
(***************************************************************************)
InitOracle ==
  /\ CONFIGS = ProbeWorld.configs
  /\ existing = ProbeWorld.existing
  /\ dirs = ProbeWorld.dirs
  /\ fs \in [ResultFiles(ProbeWorld) -> AllContents]
  /\ tree = Mkdirs({}, build_job_queue(CONFIGS, existing, dirs).made).tree
  /\ job_queue = build_job_queue(CONFIGS, existing, dirs).queue
  /\ pc = "probe"
  /\ i = 1
  /\ total_tries = 0
  /\ failures = <<>>
  /\ progress = 0
  /\ exc = "none"
  /\ message = ""
  /\ missing = [name |-> "", path |-> NoPath]
  /\ routes = <<>>
  /\ again = [exc |-> "none", queue |-> <<>>]
  /\ trace = <<>>
  /\ outcome = <<"PENDING">>
  /\ invocations = <<0>>
  /\ entry = <<"none">>

Oracle_Probe ==
  /\ pc = "probe"
  /\ trace' = Append(trace, <<"needs_rerun", needs_rerun(fs[job.result_file])>>)
  /\ pc' = "probed"
  /\ UNCHANGED <<env, routes, again, missing, fs, tree, job_queue, i,
                 total_tries, failures, progress, exc, message, outcome,
                 invocations, entry>>

NextOracle == Oracle_Probe

SpecOracle == InitOracle /\ [][NextOracle]_vars

(***************************************************************************)
(* discover_routes on its own: the route directory lists up to MaxEntries  *)
(* distinct entries out of EntryNames, in any order, and the function is   *)
(* called once.                                                            *)
(***************************************************************************)
MaxEntries == 4

EntryNames == {F_route_1, F_route_2, F_route_10, F_a_7, F_notes_txt, F_dot_xml,
               F_r_XML, F_r_xml_bak}

\* What iterdir can yield: the entries of a directory, in arbitrary order.
Listings ==
  {q \in SeqsUpTo(EntryNames, MaxEntries) :
     \A a \in 1..Len(q) : \A b \in 1..Len(q) : a # b => q[a] # q[b]}

InitRoutes ==
  /\ CONFIGS = <<BaseCfg>>
  /\ existing = AllPaths
  /\ \E q \in Listings : dirs = Dirs(q, <<>>)
  /\ fs = <<>>
  /\ tree = {}
  /\ job_queue = <<>>
  /\ pc = "discover"
  /\ i = 0
  /\ total_tries = 0
  /\ failures = <<>>
  /\ progress = 0
  /\ exc = "none"
  /\ message = ""
  /\ missing = [name |-> "", path |-> NoPath]
  /\ routes = <<>>
  /\ again = [exc |-> "none", queue |-> <<>>]
  /\ trace = <<>>
  /\ outcome = <<>>
  /\ invocations = <<>>
  /\ entry = <<>>

Routes_Discover ==
  /\ pc = "discover"
  /\ routes' = discover_routes(dirs[expand_path(RouteDir)])
  /\ pc' = "discovered"
  /\ UNCHANGED <<env, again, fs, tree, job_queue, i, total_tries, failures,
                 progress, exc, message, missing, trace, outcome, invocations,
                 entry>>

NextRoutes == Routes_Discover

SpecRoutes == InitRoutes /\ [][NextRoutes]_vars

(***************************************************************************)
(* build_job_queue called a second time, with the configurations and the   *)
(* route directories unchanged: right after the first call, or by a new    *)
(* run of the program after main has ended.  The output tree is as the     *)
(* first run left it, and iterdir may list the entries in another order.   *)
(***************************************************************************)
Build_Again ==
  /\ (pc = "for" /\ i = 1) \/ pc \in {"done", "raised"}
  /\ \E listing \in [DOMAIN dirs -> UNION {Reorderings(dirs[d]) : d \in DOMAIN dirs}] :
       /\ \A d \in DOMAIN dirs : listing[d] \in Reorderings(dirs[d])
       /\ LET b == build_job_queue(CONFIGS, existing, listing)
              m == Mkdirs(tree, b.made)
          IN /\ tree' = m.tree
             /\ again' = IF m.exc # "none" THEN [exc |-> m.exc, queue |-> <<>>]
                         ELSE [exc |-> b.exc, queue |-> b.queue]
  /\ pc' = "built_again"
  /\ UNCHANGED <<env, routes, fs, job_queue, i, total_tries, failures,
                 progress, exc, message, missing, trace, outcome, invocations,
                 entry>>

NextTwice == Next \/ Build_Again

SpecTwice == Init /\ [][NextTwice]_vars

Spec == Init /\ [][Next]_vars

(***************************************************************************)
(* main run to its end: once the queue is built, the for loop and         *)
(* process_job go on as long as they have a step to take, the evaluator    *)
(* returning from every launch.  The runs are those of queues of two jobs  *)
(* with up to LiveTries tries.                                             *)
(***************************************************************************)
LiveTries == 2

LiveWorlds ==
  { World(<<[BaseCfg EXCEPT !.tries = n]>>, AllPaths,
          Dirs(<<F_route_2, F_notes_txt, F_route_1>>, <<>>)) : n \in 0..LiveTries }
  \cup { World(<<[BaseCfg EXCEPT !.tries = n, !.benchmark = S_Bench2Drive],
                 [BaseCfg EXCEPT !.has_tries = FALSE, !.has_seeds = FALSE,
                                 !.route_path = OtherRouteDir,
                                 !.benchmark = S_longest6]>>, AllPaths,
               Dirs(<<F_route_7>>, <<F_town_1234>>)) : n \in 0..LiveTries }

InitLive == Init /\ \E w \in LiveWorlds : CONFIGS = w.configs /\ dirs = w.dirs

\* The steps of main after build_job_queue has returned.
Run ==
  \/ Main_NextJob
  \/ PJ_While
  \/ PJ_CheckSkip
  \/ PJ_Launch
  \/ PJ_CheckDone
  \/ Main_AfterJob
  \/ Main_Summary

SpecLive == InitLive /\ [][Next]_vars /\ WF_vars(Run)

(***************************************************************************)
(* What the properties below speak of.                                     *)
(***************************************************************************)
\* process_job is running, or has just returned or raised, for job i: trace
\* is that call's history.
InJob == pc \in {"while", "check_skip", "launch", "check_done", "returned_True",
                 "returned_False"}

Returned == pc \in {"returned_True", "returned_False"}

LastEvent == trace[Len(trace)]

\* The exit codes launch_job returned in this call, as "True" (zero) or "False".
Exits == LET runs == SelectSeq(trace, LAMBDA e : e[1] = "launch_job")
         IN [k \in 1..Len(runs) |-> runs[k][2]]

\* The retry budget the configuration gave job k.
Tries(k) == job_queue[k].cfg.tries

\* The four failure statuses, as the specification lists them.
FailureStatuses == {S_Failed, S_FailedSetup, S_FailedSim, S_FailedAgent}

\* A document in the format the evaluator writes: an object whose
\* "_checkpoint", when there, is an object whose "progress", when there, is a
\* list of numbers and whose "records", when there, is a list of objects whose
\* "status", when there, is a string.
WellFormedRecords(rs) ==
  /\ rs.t = "list"
  /\ \A k \in 1..Len(rs.v) :
       /\ rs.v[k].t = "obj"
       /\ HasKey(rs.v[k].v, "status") => ValueOf(rs.v[k].v, "status").t = "str"

WellFormedCheckpoint(c) ==
  /\ c.t = "obj"
  /\ HasKey(c.v, "progress") =>
       LET pr == ValueOf(c.v, "progress") IN
       pr.t = "list" /\ \A k \in 1..Len(pr.v) : pr.v[k].t = "num"
  /\ HasKey(c.v, "records") => WellFormedRecords(ValueOf(c.v, "records"))

WellFormed(content) ==
  /\ content.t = "json"
  /\ content.v.t = "obj"
  /\ HasKey(content.v.v, "_checkpoint") =>
       WellFormedCheckpoint(ValueOf(content.v.v, "_checkpoint"))

\* The decision table on a missing file or a well-formed document: TRUE for
\* "needs rerun".
TableNeedsRerun(content) ==
  \/ content.t = "missing"
  \/ ~HasKey(content.v.v, "_checkpoint")
  \/ LET c == ValueOf(content.v.v, "_checkpoint").v IN
     \/ ~HasKey(c, "progress")
     \/ Len(ValueOf(c, "progress").v) < 2
     \/ ValueOf(c, "progress").v[1].v < ValueOf(c, "progress").v[2].v
     \/ /\ HasKey(c, "records")
        /\ \E k \in 1..Len(ValueOf(c, "records").v) :
             LET rec == ValueOf(c, "records").v[k].v IN
             HasKey(rec, "status") /\ ValueOf(rec, "status").v \in FailureStatuses

\* The result file is complete: all routes done and no failure status.
ResultComplete(content) == WellFormed(content) /\ ~TableNeedsRerun(content)

\* Unparsable or malformed content.
Malformed(content) == content.t # "missing" /\ ~WellFormed(content)

\* A failed, incomplete, missing or unparsable result.
NotDone(content) ==
  \/ content.t \in {"missing", "garbage"}
  \/ WellFormed(content) /\ TableNeedsRerun(content)

(***************************************************************************)
(* C1: every job's remaining_tries never increases from one step to the    *)
(* next and is never negative.                                             *)
(***************************************************************************)
C1_RemainingTriesNonIncreasing ==
  /\ [](\A k \in 1..Len(job_queue) : job_queue[k].remaining_tries >= 0)
  /\ [][\A k \in 1..Len(job_queue) :
          job_queue'[k].remaining_tries <= job_queue[k].remaining_tries]_vars

C1_Witness ==
  \E k \in 1..Len(job_queue) :
    job_queue[k].remaining_tries = 0 /\ Tries(k) >= 2 /\ invocations[k] = Tries(k)

(***************************************************************************)
(* C2: launch_job is about to run only right after needs_rerun returned    *)
(* True for the same job, with the result file not complete; every         *)
(* launch_job of a call follows a needs_rerun that returned True.          *)
(***************************************************************************)
C2_LaunchOnlyAfterNeedsRerun ==
  /\ pc = "launch" =>
       /\ trace # <<>>
       /\ LastEvent = <<"needs_rerun", "True">>
       /\ ~ResultComplete(fs[job.result_file])
  /\ InJob =>
       \A p \in 1..Len(trace) :
         trace[p][1] = "launch_job" => p > 1 /\ trace[p - 1] = <<"needs_rerun", "True">>

C2_Witness ==
  /\ pc = "launch"
  /\ entry[i] = "True"
  /\ \E p \in 1..Len(trace) : trace[p][1] = "launch_job"

(***************************************************************************)
(* C3 as stated: a job whose result file needs_rerun finds complete when   *)
(* process_job begins ends SUCCEEDED with no launch_job call and its       *)
(* remaining_tries untouched, whatever remaining_tries it began with.      *)
(***************************************************************************)
C3_Original ==
  \A k \in 1..Len(job_queue) :
    outcome[k] # "PENDING" /\ entry[k] = "False" =>
      /\ outcome[k] = "SUCCEEDED"
      /\ invocations[k] = 0
      /\ job_queue[k].remaining_tries = Tries(k)

(***************************************************************************)
(* C3 amended: the same for every job that begins with remaining_tries of  *)
(* at least 1.                                                             *)
(***************************************************************************)
C3_SkipFirst ==
  \A k \in 1..Len(job_queue) :
    outcome[k] # "PENDING" /\ entry[k] = "False" /\ Tries(k) >= 1 =>
      /\ outcome[k] = "SUCCEEDED"
      /\ invocations[k] = 0
      /\ job_queue[k].remaining_tries = Tries(k)

C3_Witness ==
  /\ pc = "returned_True"
  /\ entry[i] = "False"
  /\ Tries(i) >= 2
  /\ trace = << <<"needs_rerun", "False">> >>

(***************************************************************************)
(* C4 as stated: when process_job returns and every launch_job of the call *)
(* exited non-zero, the call made exactly `tries` launches and returned    *)
(* False.                                                                  *)
(***************************************************************************)
C4_Original ==
  Returned /\ (\A k \in 1..Len(Exits) : Exits[k] = "False") =>
    /\ pc = "returned_False"
    /\ Len(Exits) = Tries(i)
    /\ invocations[i] = Tries(i)

(***************************************************************************)
(* C4 amended: the same when, in addition, needs_rerun never found the     *)
(* result file complete before an attempt.                                 *)
(***************************************************************************)
C4_AlwaysFailingExhausts ==
  /\ Returned
  /\ \A k \in 1..Len(Exits) : Exits[k] = "False"
  /\ \A p \in 1..Len(trace) : trace[p][1] = "needs_rerun" => trace[p][2] = "True"
  => /\ pc = "returned_False"
     /\ outcome[i] = "EXHAUSTED"
     /\ Len(Exits) = Tries(i)
     /\ invocations[i] = Tries(i)

C4_Witness ==
  /\ pc = "returned_False"
  /\ Tries(i) = 3
  /\ Exits = <<"False", "False", "False">>

(***************************************************************************)
(* C5: when attempt k of a call is the first whose launch_job exits zero   *)
(* with needs_rerun then finding the result complete, the call ends there: *)
(* it returns True after exactly k launches with remaining_tries equal to  *)
(* tries - k.                                                              *)
(***************************************************************************)
C5_SucceedsAtFirstAgreeingAttempt ==
  InJob =>
    \A p \in 1..(Len(trace) - 1) :
      trace[p] = <<"launch_job", "True">> /\ trace[p + 1] = <<"needs_rerun", "False">> =>
        LET k == Len(SelectSeq(SubSeq(trace, 1, p), LAMBDA e : e[1] = "launch_job")) IN
        /\ Len(trace) = p + 1
        /\ pc = "returned_True"
        /\ outcome[i] = "SUCCEEDED"
        /\ invocations[i] = k
        /\ k <= Tries(i)
        /\ job.remaining_tries = Tries(i) - k

C5_Witness ==
  /\ pc = "returned_True"
  /\ Tries(i) = 3
  /\ Exits = <<"False", "False", "True">>
  /\ LastEvent = <<"needs_rerun", "False">>

(***************************************************************************)
(* C6: process_job returns True only with the result file complete and     *)
(* needs_rerun having just said so; a zero exit is always followed by a    *)
(* needs_rerun check, and when that check finds the result not complete    *)
(* the call does not return True for that attempt: it gives up only with   *)
(* no tries left, and with tries left the next thing it does after the     *)
(* check of the loop head is to launch the job again.                      *)
(***************************************************************************)
C6_SuccessJudgedByResult ==
  /\ pc = "returned_True" =>
       /\ needs_rerun(fs[job.result_file]) = "False"
       /\ ~NotDone(fs[job.result_file])
       /\ LastEvent = <<"needs_rerun", "False">>
  /\ pc = "returned_False" => job.remaining_tries = 0
  /\ InJob =>
       \A p \in 1..Len(trace) :
         trace[p] = <<"launch_job", "True">> =>
           /\ p = Len(trace) => pc = "check_done"
           /\ p < Len(trace) => trace[p + 1][1] = "needs_rerun"
           /\ p < Len(trace) /\ trace[p + 1][2] = "True" =>
                /\ p + 1 = Len(trace) =>
                     /\ pc \in {"while", "check_skip", "returned_False"}
                     /\ pc = "check_skip" => job.remaining_tries > 0
                /\ p + 1 < Len(trace) => trace[p + 2] = <<"needs_rerun", "True">>
                /\ p + 2 = Len(trace) => pc = "launch"
                /\ p + 2 < Len(trace) => trace[p + 3][1] = "launch_job"

C6_Witness ==
  /\ pc = "launch"
  /\ Len(trace) >= 3
  /\ trace[Len(trace) - 2] = <<"launch_job", "True">>
  /\ NotDone(fs[job.result_file])

(***************************************************************************)
(* C7: the jobs are handed to process_job one at a time in queue order     *)
(* (the jobs before the current one have ended, the jobs after it have     *)
(* not been checked or launched), no exception ends the batch once the     *)
(* queue is built, and main ends with every job processed.                 *)
(***************************************************************************)
C7_EveryJobProcessed ==
  /\ \A k \in 1..Len(job_queue) :
       /\ k < i => outcome[k] # "PENDING" /\ entry[k] # "none"
       /\ k > i => outcome[k] = "PENDING" /\ entry[k] = "none" /\ invocations[k] = 0
  /\ job_queue # <<>> => pc # "raised"
  /\ pc = "done" /\ job_queue # <<>> =>
       /\ \A k \in 1..Len(job_queue) : outcome[k] # "PENDING"
       /\ progress = Len(job_queue)

(***************************************************************************)
(* C8 as stated: when main ends, failures lists the (route id, seed) of    *)
(* the jobs that ended EXHAUSTED, once each and in queue order, and the    *)
(* success message is printed exactly when no job ended EXHAUSTED.         *)
(***************************************************************************)
RECURSIVE ExhaustedUpTo(_)
ExhaustedUpTo(n) ==
  IF n = 0 THEN <<>>
  ELSE IF outcome[n] = "EXHAUSTED"
       THEN Append(ExhaustedUpTo(n - 1), <<job_queue[n].route_id, job_queue[n].seed>>)
       ELSE ExhaustedUpTo(n - 1)

C8_Original ==
  pc = "done" =>
    /\ failures = ExhaustedUpTo(Len(job_queue))
    /\ message = "All jobs completed successfully." <=>
         \A k \in 1..Len(job_queue) : outcome[k] # "EXHAUSTED"

(***************************************************************************)
(* C8 amended: the same when the queue holds at least one job; with an     *)
(* empty queue main reports that no jobs were discovered and prints        *)
(* neither the success message nor a list of failures.                     *)
(***************************************************************************)
C8_FailuresAreTheExhaustedJobs ==
  /\ pc = "done" /\ job_queue # <<>> =>
       /\ failures = ExhaustedUpTo(Len(job_queue))
       /\ message = "All jobs completed successfully." <=>
            \A k \in 1..Len(job_queue) : outcome[k] # "EXHAUSTED"
       /\ message = "The following jobs failed:" <=>
            \E k \in 1..Len(job_queue) : outcome[k] = "EXHAUSTED"
  /\ pc = "done" /\ job_queue = <<>> =>
       message = "No jobs discovered" /\ failures = <<>>

C8_Witness ==
  /\ pc = "done"
  /\ Len(job_queue) = 3
  /\ outcome = <<"EXHAUSTED", "SUCCEEDED", "EXHAUSTED">>
  /\ Len(failures) = 2

(***************************************************************************)
(* C9: on a missing result file and on every well-formed document,         *)
(* needs_rerun returns what the decision table says: True when the file is *)
(* missing, when "_checkpoint" or "progress" is missing, when progress has *)
(* fewer than 2 elements or completed < total, and when a record has one   *)
(* of the four failure statuses; False in every other case.                *)
(***************************************************************************)
C9_DecisionTable ==
  pc = "probed" /\ (fs[job.result_file] = Missing \/ WellFormed(fs[job.result_file])) =>
    LastEvent = <<"needs_rerun",
                  IF TableNeedsRerun(fs[job.result_file]) THEN "True" ELSE "False">>

C9_Witness ==
  /\ pc = "probed"
  /\ WellFormed(fs[job.result_file])
  /\ LastEvent = <<"needs_rerun", "False">>
  /\ LET c == ValueOf(fs[job.result_file].v.v, "_checkpoint").v IN
     HasKey(c, "records") /\ Len(ValueOf(c, "records").v) = 2

(***************************************************************************)
(* C10: whenever needs_rerun has been asked about unparsable or malformed  *)
(* content it returned True, and no exception of needs_rerun reaches       *)
(* process_job or main.                                                    *)
(***************************************************************************)
C10_MalformedMeansRerun ==
  /\ exc \in {"none", "FileNotFoundError"}
  /\ (InJob /\ trace # <<>> /\ LastEvent[1] = "needs_rerun"
        /\ Malformed(fs[job.result_file]))
     => LastEvent[2] = "True"
(***************************************************************************)
(* What the properties of the queue builder speak of: the configurations   *)
(* as preprocess_config resolves them, their seed lists and their routes,  *)
(* and the place of a (configuration, seed, route) combination in a queue  *)
(* ordered by configuration, then seed, then route.                        *)
(***************************************************************************)
Built == pc # "main" /\ exc # "FileNotFoundError"

Resolved(c) == preprocess_config(CONFIGS[c], existing).cfg
SeedsOf(c) == IF CONFIGS[c].has_seeds THEN CONFIGS[c].seeds ELSE <<SeedInt(1)>>
RoutesOf(c) == discover_routes(dirs[Resolved(c).route_path])

RECURSIVE Offset(_)
Offset(c) ==
  IF c = 1 THEN 0
  ELSE Offset(c - 1) + Len(SeedsOf(c - 1)) * Len(RoutesOf(c - 1))

Position(c, s, r) == Offset(c) + (s - 1) * Len(RoutesOf(c)) + r

(***************************************************************************)
(* C11: the queue build_job_queue returns holds one descriptor for each    *)
(* (configuration, seed, route) combination and nothing else, at the place *)
(* the order configuration, then seed in seed-list order, then route in    *)
(* discovery order gives it (so the jobs of one configuration and seed are *)
(* contiguous), and as returned each descriptor's remaining_tries is the   *)
(* tries of its configuration.                                             *)
(***************************************************************************)
C11_OnePerCombinationInOrder ==
  Built =>
    /\ Len(job_queue) = Offset(Len(CONFIGS) + 1)
    /\ \A c \in 1..Len(CONFIGS) :
         \A s \in 1..Len(SeedsOf(c)) :
           \A r \in 1..Len(RoutesOf(c)) :
             LET j == job_queue[Position(c, s, r)] IN
             /\ j.cfg = Resolved(c)
             /\ j.seed = int(SeedsOf(c)[s])
             /\ j.route = [dir |-> Resolved(c).route_path, name |-> RoutesOf(c)[r]]
             /\ (pc = "for" /\ i = 1) => j.remaining_tries = Resolved(c).tries

C11_Witness ==
  /\ pc = "for"
  /\ i = 1
  /\ Len(job_queue) = 4
  /\ job_queue[1].seed = 2 /\ job_queue[2].seed = 2
  /\ job_queue[3].seed = 1 /\ job_queue[4].seed = 1
  /\ job_queue[1].route.name = F_route_10 /\ job_queue[2].route.name = F_route_2

(***************************************************************************)
(* C12: no two descriptors of the queue share an output location: their    *)
(* result files, their stdout logs, their stderr logs and their            *)
(* visualization directories all differ.                                   *)
(***************************************************************************)
C12_NoSharedOutput ==
  Built =>
    \A k \in 1..Len(job_queue) :
      \A m \in 1..Len(job_queue) :
        k # m =>
          /\ job_queue[k].result_file # job_queue[m].result_file
          /\ job_queue[k].log_file # job_queue[m].log_file
          /\ job_queue[k].err_file # job_queue[m].err_file
          /\ job_queue[k].viz_path # job_queue[m].viz_path

(***************************************************************************)
(* C13: when a required path of a configuration (route directory,          *)
(* simulator root, repository root, agent entry file, checkpoint file)     *)
(* does not exist, main ends in a FileNotFoundError that names a required  *)
(* field of a configuration and its resolved path, a path that does not    *)
(* exist; no job descriptor is returned, launch_job is never called, and   *)
(* nothing is done after the error: there is no retry.                     *)
(***************************************************************************)
RequiredOf(cfg) ==
  { <<"route_path", cfg.route_path>>, <<"carla_root", cfg.carla_root>>,
    <<"repo_root", cfg.repo_root>>, <<"agent_file", cfg.agent_file>>,
    <<"checkpoint", cfg.checkpoint>> }

SomePathMissing ==
  \E c \in 1..Len(CONFIGS) : \E f \in RequiredOf(Resolved(c)) : f[2] \notin existing

C13_MissingPathIsFatal ==
  /\ [](pc # "main" /\ SomePathMissing =>
         /\ pc = "raised"
         /\ exc = "FileNotFoundError"
         /\ missing.path \notin existing
         /\ \E c \in 1..Len(CONFIGS) :
              <<missing.name, missing.path>> \in RequiredOf(Resolved(c))
         /\ job_queue = <<>>
         /\ invocations = <<>>
         /\ \A t \in tree : t[2] = "dir" /\ t[1].name = <<>>)
  /\ [][exc # "FileNotFoundError"]_vars

C13_Witness ==
  /\ pc = "raised"
  /\ exc = "FileNotFoundError"
  /\ Len(CONFIGS) = 2
  /\ missing.name = "checkpoint"
  /\ tree # {}

(***************************************************************************)
(* C14: the route id of every job is the last "_"-delimited token of the   *)
(* stem of its route file name, with zeros put in front of it up to width  *)
(* 3 when the benchmark name is "bench2drive" in any letter case and up to *)
(* width 2 for every other benchmark name; a token at least that wide is   *)
(* the route id as it is.  route_7.xml gives "007" and "07".               *)
(***************************************************************************)
\* The letters of s in upper case.
Fold(s) == [k \in 1..Len(s) |-> IF s[k] \in 97..122 THEN s[k] - 32 ELSE s[k]]

\* "BENCH2DRIVE"
S_BENCH2DRIVE == <<66, 69, 78, 67, 72, 50, 68, 82, 73, 86, 69>>

Width(benchmark) == IF Fold(benchmark) = S_BENCH2DRIVE THEN 3 ELSE 2

\* tok is the last "_"-delimited token of the stem of name, a file name
\* that ends in ".xml".
IsLastToken(tok, name) ==
  LET stem == SubSeq(name, 1, Len(name) - 4) IN
  \E n \in 0..Len(stem) :
    /\ tok = SubSeq(stem, n + 1, Len(stem))
    /\ \A k \in 1..Len(tok) : tok[k] # 95
    /\ n > 0 => stem[n] = 95

\* id is tok with zeros in front up to the width, and tok when it is that
\* wide already.
IsPadded(id, tok, width) ==
  /\ Len(id) = IF Len(tok) >= width THEN Len(tok) ELSE width
  /\ SubSeq(id, Len(id) - Len(tok) + 1, Len(id)) = tok
  /\ \A k \in 1..(Len(id) - Len(tok)) : id[k] = 48

HasXmlExtension(name) ==
  Len(name) > 4 /\ SubSeq(name, Len(name) - 3, Len(name)) = <<46, 120, 109, 108>>

\* a comes before b in lexicographic order.
LexLess(a, b) ==
  \/ Len(a) < Len(b) /\ SubSeq(b, 1, Len(a)) = a
  \/ \E p \in 1..Len(a) :
       /\ p <= Len(b)
       /\ SubSeq(a, 1, p - 1) = SubSeq(b, 1, p - 1)
       /\ a[p] < b[p]

Listed == dirs[expand_path(RouteDir)]

C15_RoutesFilteredSortedDeterministic ==
  pc = "discovered" =>
    /\ {routes[k] : k \in 1..Len(routes)}
         = {Listed[k] : k \in 1..Len(Listed)} \cap {name \in EntryNames : HasXmlExtension(name)}
    /\ \A a \in 1..Len(routes) : \A b \in 1..Len(routes) :
         a < b => LexLess(routes[a], routes[b])
    /\ \A r \in Reorderings(Listed) : discover_routes(r) = routes

C15_Witness ==
  /\ pc = "discovered"
  /\ Listed = <<F_route_2, F_notes_txt, F_route_10, F_route_1>>
  /\ routes = <<F_route_1, F_route_10, F_route_2>>

(***************************************************************************)
(* C16: a second build_job_queue call with the configurations and the      *)
(* route directories unchanged raises nothing when the first raised        *)
(* nothing, the output directories and files of the first run being there, *)
(* and returns a queue of the same length whose descriptors agree with the *)
(* first queue's, position by position, on route, route id, seed, result   *)
(* file, log files and visualization directory.                            *)
(***************************************************************************)
C16_RebuildGivesSameQueue ==
  pc = "built_again" /\ exc # "FileNotFoundError" =>
    /\ again.exc = "none"
    /\ Len(again.queue) = Len(job_queue)
    /\ \A k \in 1..Len(job_queue) :
         /\ again.queue[k].route = job_queue[k].route
         /\ again.queue[k].route_id = job_queue[k].route_id
         /\ again.queue[k].seed = job_queue[k].seed
         /\ again.queue[k].result_file = job_queue[k].result_file
         /\ again.queue[k].log_file = job_queue[k].log_file
         /\ again.queue[k].err_file = job_queue[k].err_file
         /\ again.queue[k].viz_path = job_queue[k].viz_path

C16_Witness ==
  /\ pc = "built_again"
  /\ Len(job_queue) = 3
  /\ Len(again.queue) = 3
  /\ \A k \in 1..3 : invocations[k] = 1 /\ File(job_queue[k].log_file) \in tree
  /\ again.queue[3].result_file = job_queue[3].result_file

(***************************************************************************)
(* C17: once the queue is built, a step of process_job or launch_job       *)
(* changes nothing in it but the remaining_tries of the job being          *)
(* processed: that job's configuration, route, route id, seed and output   *)
(* paths stay as build_job_queue set them, and the descriptors of all      *)
(* other jobs stay as they are, remaining_tries included; a job that has   *)
(* not been handed to process_job yet still has its configuration's tries. *)
(***************************************************************************)
C17_OnlyOwnCounterChanges ==
  /\ [](Built =>
         \A k \in 1..Len(job_queue) :
           /\ [job_queue[k] EXCEPT !.remaining_tries = job_queue[k].cfg.tries]
                = build_job_queue(CONFIGS, existing, dirs).queue[k]
           /\ entry[k] = "none" =>
                job_queue[k].remaining_tries = job_queue[k].cfg.tries)
  /\ [][pc # "main" =>
          /\ Len(job_queue') = Len(job_queue)
          /\ \A k \in 1..Len(job_queue) :
               IF k = i
               THEN [job_queue'[k] EXCEPT !.remaining_tries = job_queue[k].remaining_tries]
                      = job_queue[k]
               ELSE job_queue'[k] = job_queue[k]]_vars

C17_Witness ==
  /\ pc = "returned_False"
  /\ Len(job_queue) = 3
  /\ i = 2
  /\ invocations[2] = 1
  /\ job_queue[2].remaining_tries = 0
  /\ job_queue[1].remaining_tries = 1
  /\ job_queue[3].remaining_tries = 1

C19_Original ==
  pc = "returned_False" => needs_rerun(fs[job.result_file]) = "True"

(***************************************************************************)
(* C19 amended: whenever process_job returns False the job has no tries    *)
(* left, and either its configuration gave it no tries and nothing was     *)
(* checked or launched, or its last launch_job exited non-zero and the     *)
(* result file was not looked at afterwards, or its last launch_job exited *)
(* zero and needs_rerun then returned True for the result file, as it      *)
(* still does.                                                             *)
(***************************************************************************)
C19_ExhaustedAfterFailedLastTry ==
  pc = "returned_False" =>
    /\ job.remaining_tries = 0
    /\ \/ Tries(i) = 0 /\ trace = <<>>
       \/ /\ Tries(i) > 0
          /\ LastEvent = <<"launch_job", "False">>
       \/ /\ Len(trace) >= 2
          /\ trace[Len(trace) - 1] = <<"launch_job", "True">>
          /\ LastEvent = <<"needs_rerun", "True">>
          /\ needs_rerun(fs[job.result_file]) = "True"

C19_Witness ==
  /\ pc = "returned_False"
  /\ Tries(i) = 2
  /\ Exits = <<"False", "True">>
  /\ LastEvent = <<"needs_rerun", "True">>
  /\ NotDone(fs[job.result_file])

(***************************************************************************)
(* C20: every launch_job call returning, once the queue is built main      *)
(* eventually ends with its summary printed and every job SUCCEEDED or     *)
(* EXHAUSTED, whatever the queue, the tries, the exit codes and the        *)
(* contents of the result files; and a job that is SUCCEEDED or EXHAUSTED  *)
(* is not launched or checked again.                                       *)
(***************************************************************************)
C20_EveryJobEndsAndStaysEnded ==
  /\ (pc = "for" /\ i = 1) ~>
       /\ pc = "done"
       /\ message \in {"All jobs completed successfully.", "The following jobs failed:"}
       /\ \A k \in 1..Len(job_queue) : outcome[k] \in {"SUCCEEDED", "EXHAUSTED"}
  /\ [](\A k \in 1..Len(job_queue) :
          outcome[k] # "PENDING" => k < i \/ (k = i /\ Returned))
  /\ [][\A k \in 1..Len(job_queue) :
          outcome[k] # "PENDING" =>
            /\ outcome'[k] = outcome[k]
            /\ invocations'[k] = invocations[k]
            /\ entry'[k] = entry[k]]_vars
====
